---- MODULE Spec2Model ----
(***************************************************************************)
(* Purchase settlement and download-token redemption of the BuyMeaCoffee   *)
(* marketplace server (database/server.js over the Mongoose models of      *)
(* database/models.js), and the upload call of its API client.             *)
(*                                                                         *)
(* Collections are sets of documents (records).  A request handler is one  *)
(* action per database round trip: every `await` of the handler is a point *)
(* where handlers of other requests may run.                               *)
(***************************************************************************)
EXTENDS Integers, FiniteSets, Sequences, TLC

(***************************************************************************)
(* Bounds of the model.                                                    *)
(***************************************************************************)
MaxAmount == 2
MaxTime == 2
NumRequests == 2
NumClients == 2
ScriptLen == 5
MaxTries == 5

ProfileIds == {"p1"}
BuyerIds == {"b1"}
ImageIds == {"i1"}
TxnIds == {"t1", "t2"}
PayRefs == {"pay1", "pay2"}
TokenDocIds == {"k1", "k2"}
TokenValues == {"tokA", "tokB"}

Amounts == {-1} \cup (1..MaxAmount)
Prices == 1..MaxAmount
Times == 0..MaxTime
Requests == 1..NumRequests
Clients == 1..NumClients

(***************************************************************************)
(* Constants of the upload client.                                         *)
(***************************************************************************)
RetryLimit == 3
BaseDelayMs == 1000

VARIABLES
    profiles,      \* the Profile collection
    images,        \* the Image collection
    transactions,  \* the Transaction collection
    tokens,        \* the DownloadToken collection
    now,           \* the server clock, new Date()
    txPc,          \* POST /api/transactions: position of each request's handler
    txBody,        \* its req.body, {} before the request arrives
    txCreator,     \* its local `creator`: the result of Profile.findOne
    txCode,        \* the HTTP status it answered, 0 while unanswered
    rdPc,          \* a redemption attempt: validate request, then use request
    rdToken,       \* the :token parameter of the attempt
    rdResp,        \* the last response the attempt received
    upPc,          \* uploadImages: position of the call
    upImpl,        \* which copy of uploadImages runs the call
    upScript,      \* the storage collaborator: its answer to each submission
    upRetry,       \* uploadWithRetry's retryCount
    upAttempts,    \* submissions sent so far by the call
    upInFlight,    \* submissions sent and not yet answered
    upDelays,      \* the delays (ms) the call has waited, in order
    upResult,      \* how the call ended: "" while running, "ok" or "error"
    upError,       \* the error it threw: {} or {[kind, attempt]}
    huPc,          \* handleUpload: "awaiting" its uploadImages call, then "done"
    huSent,        \* create-image requests handleUpload has sent
    huAlert,       \* whether handleUpload showed its failure alert
    cnPc,          \* connectDB: position of the call
    cnImpl,        \* which copy of connectDB runs
    cnEnv,         \* mongoose.connection.readyState, MONGODB_URI set, NODE_ENV
    cnAttempt,     \* its local `attempt`
    cnCalls,       \* mongoose.connect calls made so far
    cnDelays,      \* the backoff delays (ms) waited, in order
    cnThrew,       \* whether the call rejected
    rwPc,          \* runWithRetries: position of the call
    rwAttempts,    \* its parameter `attempts`
    rwI,           \* its loop variable i
    rwCalls,       \* the outcome of each call of fn so far, in order
    rwDelays,      \* the delays (ms) waited, with the number of calls made before each
    rwLastErr,     \* its local lastErr: {} (undefined) or {error}
    rwResult,      \* how it ended: {} while running, else {[kind, value]}
    suPc,          \* POST /api/upload: position of the handler
    suRoute,       \* which copy of the route handles the request
    suReq,         \* the request: req.files and the Cloudinary configuration
    suStore,       \* storage uploads started: field -> "pending", "stored" or "failed"
    suResp,        \* the answer: {} while unanswered, else {[status, urls]}
    auUser,        \* AuthProvider state `user`: {} (null) or {user}
    auProfile,     \* AuthProvider state `profile`: {} (null) or {profile}
    auStored,      \* localStorage 'user': {} or {user}
    siPc,          \* signIn: position of the call
    siUserId,      \* its parameter userId
    siBefore,      \* the authentication state when the call began
    siThrew        \* whether the call threw

vars == <<profiles, images, transactions, tokens, now,
          txPc, txBody, txCreator, txCode, rdPc, rdToken, rdResp,
          upPc, upImpl, upScript, upRetry, upAttempts, upInFlight, upDelays,
          upResult, upError,
          huPc, huSent, huAlert,
          cnPc, cnImpl, cnEnv, cnAttempt, cnCalls, cnDelays, cnThrew,
          rwPc, rwAttempts, rwI, rwCalls, rwDelays, rwLastErr, rwResult,
          suPc, suRoute, suReq, suStore, suResp,
          auUser, auProfile, auStored, siPc, siUserId, siBefore, siThrew>>

settleVars == <<txPc, txBody, txCreator, txCode>>
tokenVars == <<tokens, now>>
redeemVars == <<rdPc, rdToken, rdResp>>
uploadVars == <<upPc, upImpl, upScript, upRetry, upAttempts, upInFlight, upDelays,
                upResult, upError>>
creatorVars == <<huPc, huSent, huAlert>>
connVars == <<cnPc, cnImpl, cnEnv, cnAttempt, cnCalls, cnDelays, cnThrew>>
retryVars == <<rwPc, rwAttempts, rwI, rwCalls, rwDelays, rwLastErr, rwResult>>
srvUploadVars == <<suPc, suRoute, suReq, suStore, suResp>>
authVars == <<auUser, auProfile, auStored, siPc, siUserId, siBefore, siThrew>>
extVars == <<creatorVars, connVars, retryVars, srvUploadVars, authVars>>
dataVars == <<profiles, images, transactions, settleVars, tokenVars, redeemVars>>

(***************************************************************************)
(* Mongoose schemas: the paths each model declares.  Schemas are strict    *)
(* (the Mongoose default): a field of a request body that is not a path of *)
(* the schema is dropped when the document is built, and a property set on *)
(* a document that is not a path is never written by save().               *)
(***************************************************************************)
ProfilePaths == {"id", "name", "bio", "profile_pic", "password",
                 "created_at", "updated_at"}

ImagePaths == {"id", "creator_id", "title", "description", "image_url",
               "thumbnail_url", "price", "downloads", "category",
               "created_at", "updated_at"}

TransactionPaths == {"id", "buyer_id", "creator_id", "image_id", "amount",
                     "status", "stripe_payment_id", "created_at"}

DownloadTokenPaths == {"id", "transaction_id", "buyer_id", "image_id",
                       "token", "expires_at", "used", "created_at"}

TransactionStatuses == {"pending", "completed", "failed"}

\* new Model(body): keeps the fields of body that are paths of the schema
Cast(paths, body) == [f \in (DOMAIN body) \cap paths |-> body[f]]

\* doc with field f set to v
SetField(doc, f, v) == [g \in (DOMAIN doc) \cup {f} |-> IF g = f THEN v ELSE doc[g]]

\* a path with a default takes it when the body leaves the path out
WithDefault(doc, f, v) == IF f \in DOMAIN doc THEN doc ELSE SetField(doc, f, v)

\* Model.findOne({ id }): the documents of the collection with that id (none or one)
FindById(coll, id) == {d \in coll : d.id = id}

\* the wallet balance a stored profile document carries (none counts as 0)
Balance(doc) == IF "wallet_balance" \in DOMAIN doc THEN doc.wallet_balance ELSE 0

RECURSIVE SumAmounts(_)
SumAmounts(S) ==
    IF S = {} THEN 0
    ELSE LET t == CHOOSE x \in S : TRUE IN t.amount + SumAmounts(S \ {t})

(***************************************************************************)
(* Request bodies the clients may send.                                    *)
(***************************************************************************)
ProfileBodies == [id : ProfileIds, name : {"creator"}, wallet_balance : {0}]

ImageBodies == [id : ImageIds, creator_id : ProfileIds, title : {"photo"},
                image_url : {"url"}, thumbnail_url : {"thumb"}, price : Prices]

TransactionBodies ==
    [id : TxnIds, buyer_id : BuyerIds, creator_id : ProfileIds, image_id : ImageIds,
     amount : Amounts, status : {"completed"}, stripe_payment_id : PayRefs]
    \cup
    [id : TxnIds, buyer_id : BuyerIds, creator_id : ProfileIds, image_id : ImageIds,
     amount : Amounts, stripe_payment_id : PayRefs]

Init ==
    /\ profiles = {}
    /\ images = {}
    /\ transactions = {}
    /\ tokens = {}
    /\ now = 0
    /\ txPc = [r \in Requests |-> "idle"]
    /\ txBody = [r \in Requests |-> {}]
    /\ txCreator = [r \in Requests |-> {}]
    /\ txCode = [r \in Requests |-> 0]
    /\ rdPc = [c \in Clients |-> "idle"]
    /\ rdToken = [c \in Clients |-> ""]
    /\ rdResp = [c \in Clients |-> [status |-> 0, error |-> "", image |-> {}]]
    /\ upPc = "idle"
    /\ upImpl = "single"
    /\ upScript = <<>>
    /\ upRetry = 0
    /\ upAttempts = 0
    /\ upInFlight = 0
    /\ upDelays = <<>>
    /\ upResult = ""
    /\ upError = {}
    /\ huPc = "awaiting"
    /\ huSent = 0
    /\ huAlert = FALSE
    /\ cnPc = "idle"
    /\ cnImpl = "connection"
    /\ cnEnv = [readyState |-> 0, uri |-> FALSE, production |-> FALSE]
    /\ cnAttempt = 0
    /\ cnCalls = 0
    /\ cnDelays = <<>>
    /\ cnThrew = FALSE
    /\ rwPc = "idle"
    /\ rwAttempts = 0
    /\ rwI = 0
    /\ rwCalls = <<>>
    /\ rwDelays = <<>>
    /\ rwLastErr = {}
    /\ rwResult = {}
    /\ suPc = "idle"
    /\ suRoute = "api"
    /\ suReq = [files |-> [f \in {"image", "thumbnail"} |-> 0], multipart |-> FALSE,
                configured |-> FALSE, n |-> 0]
    /\ suStore = [f \in {"image", "thumbnail"} |-> "none"]
    /\ suResp = {}
    /\ auUser = {}
    /\ auProfile = {}
    /\ auStored = {}
    /\ siPc = "idle"
    /\ siUserId = ""
    /\ siBefore = {}
    /\ siThrew = FALSE

(***************************************************************************)
(* POST /api/profiles and POST /api/images.                                *)
(***************************************************************************)
NewProfile(body) == Cast(ProfilePaths, body)

CreateProfile(body) ==
    /\ FindById(profiles, body.id) = {}
    /\ profiles' = profiles \cup {NewProfile(body)}
    /\ UNCHANGED <<images, transactions, settleVars, tokenVars, redeemVars, uploadVars, extVars>>

\* the bodies of PUT /api/profiles/:id: any JSON the client chooses
ProfileUpdates ==
    [name : {"renamed"}, wallet_balance : Amounts] \cup [wallet_balance : Amounts]

\* mutant of UpdateDoc: the update is applied as sent, without the schema
UpdateDocUnchecked(paths, doc, body) ==
    [f \in (DOMAIN doc) \cup (DOMAIN body) |-> IF f \in DOMAIN body THEN body[f] ELSE doc[f]]

\* Model.findOneAndUpdate(filter, body): the update is cast to the schema, so
\* only the fields of body that are paths are set on the document
UpdateDoc(paths, doc, body) ==
    LET upd == Cast(paths, body) IN
    [f \in (DOMAIN doc) \cup (DOMAIN upd) |-> IF f \in DOMAIN upd THEN upd[f] ELSE doc[f]]

\* PUT /api/profiles/:id on a stored profile (404 and no change otherwise)
UpdateProfile(id, body) ==
    /\ FindById(profiles, id) # {}
    /\ profiles' = {IF d.id = id THEN UpdateDoc(ProfilePaths, d, body) ELSE d : d \in profiles}
    /\ UNCHANGED <<images, transactions, settleVars, tokenVars, redeemVars, uploadVars, extVars>>

NewImage(body) == WithDefault(Cast(ImagePaths, body), "downloads", 0)

CreateImage(body) ==
    /\ FindById(images, body.id) = {}
    /\ images' = images \cup {NewImage(body)}
    /\ UNCHANGED <<profiles, transactions, settleVars, tokenVars, redeemVars, uploadVars, extVars>>

(***************************************************************************)
(* POST /api/transactions.  The handler awaits three store operations:     *)
(* transaction.save(), Profile.findOne() and creator.save().  Any of them  *)
(* may reject (`fail`); the catch block then answers 400 and undoes        *)
(* nothing.                                                                *)
(***************************************************************************)
NewTransaction(body) == WithDefault(Cast(TransactionPaths, body), "status", "pending")

\* the schema's validators: required paths, min: 0, enum
ValidTransaction(doc) ==
    /\ {"id", "buyer_id", "creator_id", "image_id", "amount"} \subseteq DOMAIN doc
    /\ doc.amount >= 0
    /\ doc.status \in TransactionStatuses

\* mutant of UniqueId: the index on id is not unique
UniqueIdNotEnforced(coll, doc) == TRUE

\* the unique index on id: save() rejects a document whose id is stored already
UniqueId(coll, doc) == FindById(coll, doc.id) = {}

\* creator.wallet_balance += amount; creator.save().  save() writes the modified
\* paths of the schema: the sum computed from the document read earlier is
\* written when wallet_balance is a path of the schema, and nothing otherwise.
SaveCreator(coll, creator, amount) ==
    IF "wallet_balance" \in ProfilePaths
    THEN {IF d.id = creator.id
          THEN SetField(d, "wallet_balance", Balance(creator) + amount)
          ELSE d : d \in coll}
    ELSE coll

TheBody(r) == CHOOSE b \in txBody[r] : TRUE

TxnSave(r, body, fail) ==
    /\ txPc[r] = "idle"
    /\ txBody' = [txBody EXCEPT ![r] = {body}]
    /\ LET doc == NewTransaction(body) IN
       IF ~fail /\ ValidTransaction(doc) /\ UniqueId(transactions, doc)
       THEN /\ transactions' = transactions \cup {doc}
            /\ txPc' = [txPc EXCEPT ![r] = "saved"]
            /\ UNCHANGED txCode
       ELSE /\ txPc' = [txPc EXCEPT ![r] = "done"]
            /\ txCode' = [txCode EXCEPT ![r] = 400]
            /\ UNCHANGED transactions
    /\ UNCHANGED <<profiles, images, txCreator, tokenVars, redeemVars, uploadVars, extVars>>

TxnFindCreator(r, fail) ==
    /\ txPc[r] = "saved"
    /\ LET found == FindById(profiles, TheBody(r).creator_id) IN
       IF fail
       THEN /\ txPc' = [txPc EXCEPT ![r] = "done"]
            /\ txCode' = [txCode EXCEPT ![r] = 400]
            /\ UNCHANGED txCreator
       ELSE IF found = {}
       THEN /\ txPc' = [txPc EXCEPT ![r] = "done"]
            /\ txCode' = [txCode EXCEPT ![r] = 201]
            /\ UNCHANGED txCreator
       ELSE /\ txPc' = [txPc EXCEPT ![r] = "found"]
            /\ txCreator' = [txCreator EXCEPT ![r] = found]
            /\ UNCHANGED txCode
    /\ UNCHANGED <<profiles, images, transactions, txBody, tokenVars, redeemVars, uploadVars, extVars>>

TxnSaveCreator(r, fail) ==
    /\ txPc[r] = "found"
    /\ txPc' = [txPc EXCEPT ![r] = "done"]
    /\ IF fail
       THEN /\ txCode' = [txCode EXCEPT ![r] = 400]
            /\ UNCHANGED profiles
       ELSE /\ txCode' = [txCode EXCEPT ![r] = 201]
            /\ profiles' = SaveCreator(profiles, CHOOSE d \in txCreator[r] : TRUE,
                                       TheBody(r).amount)
    /\ UNCHANGED <<images, transactions, txBody, txCreator, tokenVars, redeemVars, uploadVars, extVars>>

NextSettle ==
    \/ \E body \in ProfileBodies : CreateProfile(body)
    \/ \E id \in ProfileIds, body \in ProfileUpdates : UpdateProfile(id, body)
    \/ \E body \in ImageBodies : CreateImage(body)
    \/ \E r \in Requests, body \in TransactionBodies, fail \in BOOLEAN : TxnSave(r, body, fail)
    \/ \E r \in Requests, fail \in BOOLEAN : TxnFindCreator(r, fail)
    \/ \E r \in Requests, fail \in BOOLEAN : TxnSaveCreator(r, fail)

SpecSettle == Init /\ [][NextSettle]_vars

(***************************************************************************)
(* Download tokens.  POST /api/download-tokens stores the body as sent;    *)
(* a redemption attempt is the client's GET validate request followed,     *)
(* when it answered valid, by the PUT use request.  The store is taken to  *)
(* answer every token request (the handlers' catch blocks are not          *)
(* reached).                                                               *)
(***************************************************************************)
TokenBodies ==
    [id : TokenDocIds, transaction_id : {"t1"}, buyer_id : BuyerIds, image_id : ImageIds,
     token : TokenValues, expires_at : Times]
    \cup
    [id : TokenDocIds, transaction_id : {"t1"}, buyer_id : BuyerIds, image_id : ImageIds,
     token : TokenValues, expires_at : Times, used : {TRUE}]

NewDownloadToken(body) == WithDefault(Cast(DownloadTokenPaths, body), "used", FALSE)

\* DownloadToken.findOne({ token })
FindByToken(coll, value) == {d \in coll : d.token = value}

CreateToken(body) ==
    /\ FindById(tokens, body.id) = {}
    /\ FindByToken(tokens, body.token) = {}
    /\ tokens' = tokens \cup {NewDownloadToken(body)}
    /\ UNCHANGED <<profiles, images, transactions, settleVars, now, redeemVars, uploadVars, extVars>>

\* token.expires_at < new Date()
Expired(tok, time) == tok.expires_at < time

\* the answer of GET /api/download-tokens/validate/:token
ValidateResponse(found, time) ==
    IF found = {} THEN [status |-> 404, error |-> "Token not found", image |-> {}]
    ELSE LET tok == CHOOSE d \in found : TRUE IN
         IF tok.used THEN [status |-> 400, error |-> "Token already used", image |-> {}]
         ELSE IF Expired(tok, time)
         THEN [status |-> 400, error |-> "Token expired", image |-> {}]
         ELSE [status |-> 200, error |-> "", image |-> {tok.image_id}]

\* mutant of MarkUsed: the update matches no document and writes nothing
MarkUsedNoWrite(coll, value) == coll

\* mutant of MarkUsed: the update flips the flag of the matching document
MarkUsedToggle(coll, value) ==
    {IF d.token = value THEN [d EXCEPT !.used = ~d.used] ELSE d : d \in coll}

\* DownloadToken.findOneAndUpdate({ token }, { used: true }, { new: true })
MarkUsed(coll, value) ==
    {IF d.token = value THEN [d EXCEPT !.used = TRUE] ELSE d : d \in coll}

\* the answer of PUT /api/download-tokens/use/:token: the updated document
UseResponse(found) ==
    IF found = {} THEN [status |-> 404, error |-> "Token not found", image |-> {}]
    ELSE [status |-> 200, error |-> "", image |-> {d.image_id : d \in found}]

ValidateToken(c, value) ==
    /\ rdPc[c] = "idle"
    /\ LET resp == ValidateResponse(FindByToken(tokens, value), now) IN
       /\ rdResp' = [rdResp EXCEPT ![c] = resp]
       /\ rdPc' = [rdPc EXCEPT ![c] = IF resp.status = 200 THEN "validated" ELSE "done"]
    /\ rdToken' = [rdToken EXCEPT ![c] = value]
    /\ UNCHANGED <<profiles, images, transactions, settleVars, tokenVars, uploadVars, extVars>>

UseToken(c) ==
    /\ rdPc[c] = "validated"
    /\ tokens' = MarkUsed(tokens, rdToken[c])
    /\ rdResp' = [rdResp EXCEPT ![c] = UseResponse(FindByToken(tokens, rdToken[c]))]
    /\ rdPc' = [rdPc EXCEPT ![c] = "done"]
    /\ UNCHANGED <<profiles, images, transactions, settleVars, now, rdToken, uploadVars, extVars>>

\* a PUT use request sent on its own, outside a redemption attempt
UseTokenDirect(value) ==
    /\ FindByToken(tokens, value) # {}
    /\ tokens' = MarkUsed(tokens, value)
    /\ UNCHANGED <<profiles, images, transactions, settleVars, now, redeemVars, uploadVars, extVars>>

\* a client whose attempt failed starts another attempt
RetryRedeem(c) ==
    /\ rdPc[c] = "done"
    /\ rdResp[c].status # 200
    /\ rdPc' = [rdPc EXCEPT ![c] = "idle"]
    /\ UNCHANGED <<profiles, images, transactions, settleVars, tokenVars, rdToken, rdResp, uploadVars, extVars>>

\* time passes
Tick ==
    /\ now < MaxTime
    /\ now' = now + 1
    /\ UNCHANGED <<profiles, images, transactions, settleVars, tokens, redeemVars, uploadVars, extVars>>

NextToken ==
    \/ \E body \in TokenBodies : CreateToken(body)
    \/ \E c \in Clients, value \in TokenValues : ValidateToken(c, value)
    \/ \E c \in Clients : UseToken(c)
    \/ \E value \in TokenValues : UseTokenDirect(value)
    \/ \E c \in Clients : RetryRedeem(c)
    \/ Tick

SpecToken == Init /\ [][NextToken]_vars

(***************************************************************************)
(* The purchase flow.  initiatePayment (pages/Profile.tsx) sends one       *)
(* POST /api/transactions built from the image the buyer selected and      *)
(* reports success when it answers; it sends nothing else.  Tokens come    *)
(* into being only through POST /api/download-tokens.                      *)
(***************************************************************************)
\* the createTransaction argument of initiatePayment
PaymentBody(img, buyer, id, ref) ==
    [id |-> id, buyer_id |-> buyer, creator_id |-> img.creator_id, image_id |-> img.id,
     amount |-> img.price, status |-> "completed", stripe_payment_id |-> ref]

InitiatePayment(r, img, buyer, id, ref, fail) ==
    /\ img \in images
    /\ TxnSave(r, PaymentBody(img, buyer, id, ref), fail)

IssueBodies ==
    [id : TokenDocIds, transaction_id : TxnIds, buyer_id : BuyerIds, image_id : ImageIds,
     token : TokenValues, expires_at : {MaxTime}]

NextPurchase ==
    \/ \E body \in ProfileBodies : CreateProfile(body)
    \/ \E body \in ImageBodies : CreateImage(body)
    \/ \E r \in Requests, img \in images, buyer \in BuyerIds, id \in TxnIds,
          ref \in PayRefs, fail \in BOOLEAN : InitiatePayment(r, img, buyer, id, ref, fail)
    \/ \E r \in Requests, fail \in BOOLEAN : TxnFindCreator(r, fail)
    \/ \E r \in Requests, fail \in BOOLEAN : TxnSaveCreator(r, fail)
    \/ \E body \in IssueBodies : CreateToken(body)

SpecPurchase == Init /\ [][NextPurchase]_vars

(***************************************************************************)
(* The ledger: the profile and image routes, purchases as the application  *)
(* sends them, and transactions posted without a status (stored pending).  *)
(***************************************************************************)
PendingBodies ==
    {b \in TransactionBodies : /\ "status" \notin DOMAIN b
                                /\ b.amount \in Prices
                                /\ b.stripe_payment_id = "pay1"}

NextLedger ==
    \/ \E body \in ProfileBodies : CreateProfile(body)
    \/ \E id \in ProfileIds, body \in ProfileUpdates : UpdateProfile(id, body)
    \/ \E body \in ImageBodies : CreateImage(body)
    \/ \E r \in Requests, img \in images, buyer \in BuyerIds, id \in TxnIds,
          ref \in PayRefs, fail \in BOOLEAN : InitiatePayment(r, img, buyer, id, ref, fail)
    \/ \E r \in Requests, body \in PendingBodies, fail \in BOOLEAN : TxnSave(r, body, fail)
    \/ \E r \in Requests, fail \in BOOLEAN : TxnFindCreator(r, fail)
    \/ \E r \in Requests, fail \in BOOLEAN : TxnSaveCreator(r, fail)

SpecLedger == Init /\ [][NextLedger]_vars

(***************************************************************************)
(* The image routes: PUT and DELETE /api/images/:id next to the creation   *)
(* of images and the purchases the application sends.                      *)
(***************************************************************************)
\* the bodies of PUT /api/images/:id: any JSON the client chooses
ImageUpdates ==
    [creator_id : {"p2"}] \cup [image_url : {"url2"}] \cup [downloads : {MaxAmount}]
    \cup [price : Prices]

\* PUT /api/images/:id on a stored image (404 and no change otherwise)
UpdateImage(id, body) ==
    /\ FindById(images, id) # {}
    /\ images' = {IF d.id = id THEN UpdateDoc(ImagePaths, d, body) ELSE d : d \in images}
    /\ UNCHANGED <<profiles, transactions, settleVars, tokenVars, redeemVars, uploadVars, extVars>>

\* DELETE /api/images/:id on a stored image (404 and no change otherwise)
DeleteImage(id) ==
    /\ FindById(images, id) # {}
    /\ images' = images \ FindById(images, id)
    /\ UNCHANGED <<profiles, transactions, settleVars, tokenVars, redeemVars, uploadVars, extVars>>

NextImage ==
    \/ \E body \in ProfileBodies : CreateProfile(body)
    \/ \E body \in ImageBodies : CreateImage(body)
    \/ \E id \in ImageIds, body \in ImageUpdates : UpdateImage(id, body)
    \/ \E id \in ImageIds : DeleteImage(id)
    \/ \E r \in Requests, img \in images, buyer \in BuyerIds, id \in TxnIds,
          ref \in PayRefs, fail \in BOOLEAN : InitiatePayment(r, img, buyer, id, ref, fail)
    \/ \E r \in Requests, fail \in BOOLEAN : TxnFindCreator(r, fail)
    \/ \E r \in Requests, fail \in BOOLEAN : TxnSaveCreator(r, fail)

SpecImage == Init /\ [][NextImage]_vars

(***************************************************************************)
(* uploadImages.  The copy of the API client in pages/Profile.tsx sends    *)
(* the form through uploadWithRetry, which calls fetch again when fetch    *)
(* rejects; the copy in lib/api.ts calls fetch once.  The storage          *)
(* collaborator is a script: its answer to the first, second, ...          *)
(* submission.  fetch rejects on a network error and resolves on every     *)
(* HTTP answer, 4xx and 5xx included.                                      *)
(***************************************************************************)
UploadImpls == {"withRetry", "single"}

Outcomes == {"network", "5xx", "4xx", "ok"}

Scripts == [1..ScriptLen -> Outcomes]

\* mutant of Rejects: fetch rejects on every answer that is not a success
RejectsOnAnyFailure(outcome) == outcome # "ok"

\* fetch rejects, and uploadWithRetry's catch block runs, on a network error only
Rejects(outcome) == outcome = "network"

\* mutant of MayRetry: the comparison admits one more retry
MayRetryOnceMore(impl, retryCount) == impl = "withRetry" /\ retryCount <= RetryLimit

\* if (retryCount < 3), in the copy that has a retry at all
MayRetry(impl, retryCount) == impl = "withRetry" /\ retryCount < RetryLimit

\* setTimeout(resolve, 1000 * (retryCount + 1))
Delay(retryCount) == BaseDelayMs * (retryCount + 1)

\* the error thrown for the answer to submission k
ErrorOf(outcome, k) == [kind |-> outcome, attempt |-> k]

StartUpload(impl, script) ==
    /\ upPc = "idle"
    /\ upPc' = "send"
    /\ upImpl' = impl
    /\ upScript' = script
    /\ UNCHANGED <<upRetry, upAttempts, upInFlight, upDelays, upResult, upError>>
    /\ UNCHANGED <<profiles, images, transactions, settleVars, tokenVars, redeemVars, extVars>>

\* fetch(url, { method: 'POST', body: formData }) is called
SendFetch ==
    /\ upPc = "send"
    /\ upPc' = "inflight"
    /\ upAttempts' = upAttempts + 1
    /\ upInFlight' = upInFlight + 1
    /\ UNCHANGED <<upImpl, upScript, upRetry, upDelays, upResult, upError>>
    /\ UNCHANGED <<profiles, images, transactions, settleVars, tokenVars, redeemVars, extVars>>

\* mutant of Settled: the caller goes on while the submission is in flight
SettledNotAwaited(inFlight) == inFlight

\* return await fetch(...): the caller goes on once the submission is answered
Settled(inFlight) == inFlight - 1

\* the fetch promise settles: rejected (retry or throw), or resolved with a
\* response (throw when !response.ok, return the parsed body otherwise)
ReceiveFetch ==
    /\ upPc = "inflight"
    /\ upInFlight' = Settled(upInFlight)
    /\ LET outcome == upScript[upAttempts] IN
       IF Rejects(outcome) /\ MayRetry(upImpl, upRetry)
       THEN /\ upPc' = "backoff"
            /\ UNCHANGED <<upResult, upError>>
       ELSE /\ upPc' = "done"
            /\ upResult' = IF outcome = "ok" THEN "ok" ELSE "error"
            /\ upError' = IF outcome = "ok" THEN {} ELSE {ErrorOf(outcome, upAttempts)}
    /\ UNCHANGED <<upImpl, upScript, upRetry, upAttempts, upDelays>>
    /\ UNCHANGED <<profiles, images, transactions, settleVars, tokenVars, redeemVars, extVars>>

\* the timer fires: return uploadWithRetry(retryCount + 1)
BackoffElapsed ==
    /\ upPc = "backoff"
    /\ upPc' = "send"
    /\ upDelays' = Append(upDelays, Delay(upRetry))
    /\ upRetry' = upRetry + 1
    /\ UNCHANGED <<upImpl, upScript, upAttempts, upInFlight, upResult, upError>>
    /\ UNCHANGED <<profiles, images, transactions, settleVars, tokenVars, redeemVars, extVars>>

NextUpload ==
    \/ \E impl \in UploadImpls, script \in Scripts : StartUpload(impl, script)
    \/ SendFetch
    \/ ReceiveFetch
    \/ BackoffElapsed

SpecUpload == Init /\ [][NextUpload]_vars

(***************************************************************************)
(* handleUpload (the creator's dashboard): it awaits uploadImages and,     *)
(* when the call returned, sends POST /api/images with the URLs of the     *)
(* result; when the call threw, its catch block shows an alert.            *)
(***************************************************************************)
\* mutant of UploadReturned: the flow goes on whatever the call did
UploadReturnedAlways(result) == TRUE

\* const uploadResult = await api.uploadImages(...) inside try: the next
\* statement runs only when the call returned
UploadReturned(result) == result = "ok"

\* uploadResult.image_url, uploadResult.thumbnail_url: defined on a result only
UploadUrls(result) ==
    IF result = "ok" THEN [image_url |-> "url", thumbnail_url |-> "thumb"] ELSE <<>>

\* the createImage argument (undefined properties are left out of the JSON)
UploadedImageBody(id, creator, price, result) ==
    [id |-> id, creator_id |-> creator, title |-> "photo", price |-> price, downloads |-> 0]
    @@ UploadUrls(result)

\* the required paths of imageSchema
ValidImage(doc) ==
    {"id", "creator_id", "title", "image_url", "thumbnail_url"} \subseteq DOMAIN doc

HandleUploadResume(id, creator, price, fail) ==
    /\ huPc = "awaiting"
    /\ upPc = "done"
    /\ huPc' = "done"
    /\ IF UploadReturned(upResult)
       THEN LET doc == NewImage(UploadedImageBody(id, creator, price, upResult)) IN
            /\ huSent' = huSent + 1
            /\ IF ~fail /\ ValidImage(doc) /\ FindById(images, doc.id) = {}
               THEN images' = images \cup {doc} /\ huAlert' = FALSE
               ELSE images' = images /\ huAlert' = TRUE
       ELSE /\ huSent' = huSent
            /\ huAlert' = TRUE
            /\ images' = images
    /\ UNCHANGED <<profiles, transactions, settleVars, tokenVars, redeemVars, uploadVars>>
    /\ UNCHANGED <<connVars, retryVars, srvUploadVars, authVars>>

NextCreator ==
    \/ NextUpload
    \/ \E id \in ImageIds, creator \in ProfileIds, price \in Prices, fail \in BOOLEAN :
          HandleUploadResume(id, creator, price, fail)

SpecCreator == Init /\ [][NextCreator]_vars

(***************************************************************************)
(* connectDB, in its two copies: "connection" is database/connection.js,   *)
(* "fallback" the copy that tries a local MongoDB after the last failure   *)
(* outside production.  cnAttempt is the number of the attempt in          *)
(* progress, cnCalls counts the calls of mongoose.connect, cnDelays lists  *)
(* the backoff delays waited.                                              *)
(***************************************************************************)
maxAttempts == 5
ConnBackoffBaseMs == 1000

ConnImpls == {"connection", "fallback"}

\* mongoose.connection.readyState (0 disconnected, 1 connected, 2 connecting,
\* 3 disconnecting), whether MONGODB_URI is set, NODE_ENV === 'production'
ConnEnvs == [readyState : 0..3, uri : BOOLEAN, production : BOOLEAN]

RECURSIVE Pow2(_)
Pow2(n) == IF n = 0 THEN 1 ELSE 2 * Pow2(n - 1)

\* mutant of LastAttempt: the loop gives up one failure later
LastAttemptLate(attempt) == attempt >= maxAttempts + 1

\* if (attempt >= maxAttempts) / if (attempt === maxAttempts)
LastAttempt(attempt) == attempt >= maxAttempts

\* 1000 * Math.pow(2, attempt) / 1000 * Math.pow(2, attempt - 1)
BackoffMs(impl, attempt) ==
    ConnBackoffBaseMs * Pow2(IF impl = "connection" THEN attempt ELSE attempt - 1)

\* the early returns; the error that connection.js throws for a missing URI is
\* caught by its own outer catch, which returns
ConnectDB(impl, env) ==
    /\ cnPc = "idle"
    /\ cnImpl' = impl
    /\ cnEnv' = env
    /\ cnThrew' = FALSE
    /\ IF env.readyState >= 1 \/ ~env.uri
       THEN cnPc' = "skipped" /\ cnAttempt' = cnAttempt
       ELSE cnPc' = "connecting" /\ cnAttempt' = 1
    /\ UNCHANGED <<cnCalls, cnDelays>>
    /\ UNCHANGED <<dataVars, uploadVars, creatorVars, retryVars, srvUploadVars, authVars>>

\* mongoose.connect(mongoURI, options) is called
ConnectCall ==
    /\ cnPc = "connecting"
    /\ cnPc' = "inflight"
    /\ cnCalls' = cnCalls + 1
    /\ UNCHANGED <<cnImpl, cnEnv, cnAttempt, cnDelays, cnThrew>>
    /\ UNCHANGED <<dataVars, uploadVars, creatorVars, retryVars, srvUploadVars, authVars>>

\* the awaited call settles: return on success, the catch block on failure
ConnectSettle(ok) ==
    /\ cnPc = "inflight"
    /\ IF ok
       THEN cnPc' = "connected" /\ cnDelays' = cnDelays
       ELSE IF LastAttempt(cnAttempt)
            THEN /\ cnPc' = IF cnImpl = "fallback" /\ ~cnEnv.production
                            THEN "local" ELSE "gaveup"
                 /\ cnDelays' = cnDelays
            ELSE /\ cnPc' = "backoff"
                 /\ cnDelays' = Append(cnDelays, BackoffMs(cnImpl, cnAttempt))
    /\ UNCHANGED <<cnImpl, cnEnv, cnAttempt, cnCalls, cnThrew>>
    /\ UNCHANGED <<dataVars, uploadVars, creatorVars, retryVars, srvUploadVars, authVars>>

\* the timer fires and the loop goes round
ConnectBackoffElapsed ==
    /\ cnPc = "backoff"
    /\ cnAttempt' = cnAttempt + 1
    /\ cnPc' = "connecting"
    /\ UNCHANGED <<cnImpl, cnEnv, cnCalls, cnDelays, cnThrew>>
    /\ UNCHANGED <<dataVars, uploadVars, creatorVars, retryVars, srvUploadVars, authVars>>

\* mongoose.connect('mongodb://localhost:27017/buymeacoffee', ...) is called
ConnectLocalCall ==
    /\ cnPc = "local"
    /\ cnPc' = "localInflight"
    /\ cnCalls' = cnCalls + 1
    /\ UNCHANGED <<cnImpl, cnEnv, cnAttempt, cnDelays, cnThrew>>
    /\ UNCHANGED <<dataVars, uploadVars, creatorVars, retryVars, srvUploadVars, authVars>>

\* it settles: return on success, the inner catch and return on failure
ConnectLocalSettle(ok) ==
    /\ cnPc = "localInflight"
    /\ cnPc' = IF ok THEN "connected" ELSE "gaveup"
    /\ UNCHANGED <<cnImpl, cnEnv, cnAttempt, cnCalls, cnDelays, cnThrew>>
    /\ UNCHANGED <<dataVars, uploadVars, creatorVars, retryVars, srvUploadVars, authVars>>

NextConnect ==
    \/ \E impl \in ConnImpls, env \in ConnEnvs : ConnectDB(impl, env)
    \/ ConnectCall
    \/ \E ok \in BOOLEAN : ConnectSettle(ok)
    \/ ConnectBackoffElapsed
    \/ ConnectLocalCall
    \/ \E ok \in BOOLEAN : ConnectLocalSettle(ok)

SpecConnect == Init /\ [][NextConnect]_vars

(***************************************************************************)
(* runWithRetries(fn, attempts) of the seed script.  rwCalls lists the     *)
(* outcome of every call of fn in order, rwDelays the delays waited;       *)
(* a result and an error are identified by the call that produced them.    *)
(***************************************************************************)
RetryBaseMs == 500

FnErrors == {"timeout", "refused"}
FnOutcomes == {"ok"} \cup FnErrors

\* mutant of WaitsAfter: a delay follows every failed call
WaitsAfterAlways(i, attempts) == TRUE

\* if (i < attempts)
WaitsAfter(i, attempts) == i < attempts

\* i++ and the loop test i <= attempts; after the loop, throw lastErr
LoopOrThrow(i, attempts) == IF i <= attempts THEN "calling" ELSE "threw"

\* let lastErr; for (let i = 1; i <= attempts; ...)
RunWithRetries(attempts) ==
    /\ rwPc = "idle"
    /\ rwAttempts' = attempts
    /\ rwI' = 1
    /\ rwPc' = LoopOrThrow(1, attempts)
    /\ UNCHANGED <<rwCalls, rwDelays, rwLastErr, rwResult>>
    /\ UNCHANGED <<dataVars, uploadVars, creatorVars, connVars, srvUploadVars, authVars>>

\* return await fn(), or the catch block
FnSettles(outcome) ==
    /\ rwPc = "calling"
    /\ rwCalls' = Append(rwCalls, outcome)
    /\ IF outcome = "ok"
       THEN /\ rwPc' = "returned"
            /\ rwResult' = {[call |-> rwI]}
            /\ UNCHANGED <<rwI, rwDelays, rwLastErr>>
       ELSE /\ rwLastErr' = {[call |-> rwI, err |-> outcome]}
            /\ rwResult' = rwResult
            /\ IF WaitsAfter(rwI, rwAttempts)
               THEN /\ rwDelays' = Append(rwDelays, RetryBaseMs * Pow2(rwI))
                    /\ rwPc' = "waiting"
                    /\ rwI' = rwI
               ELSE /\ rwDelays' = rwDelays
                    /\ rwI' = rwI + 1
                    /\ rwPc' = LoopOrThrow(rwI + 1, rwAttempts)
    /\ rwAttempts' = rwAttempts
    /\ UNCHANGED <<dataVars, uploadVars, creatorVars, connVars, srvUploadVars, authVars>>

\* await delay(backoff) ends and the loop goes round
RetryDelayElapsed ==
    /\ rwPc = "waiting"
    /\ rwI' = rwI + 1
    /\ rwPc' = LoopOrThrow(rwI + 1, rwAttempts)
    /\ UNCHANGED <<rwAttempts, rwCalls, rwDelays, rwLastErr, rwResult>>
    /\ UNCHANGED <<dataVars, uploadVars, creatorVars, connVars, srvUploadVars, authVars>>

NextRetry ==
    \/ \E attempts \in 1..MaxTries : RunWithRetries(attempts)
    \/ \E outcome \in FnOutcomes : FnSettles(outcome)
    \/ RetryDelayElapsed

SpecRetry == Init /\ [][NextRetry]_vars

(***************************************************************************)
(* The upload route of the server, in its two copies: "api" is             *)
(* POST /api/upload of server.js, "netlify" is                             *)
(* POST /.netlify/functions/server/upload.  A request carries a number of  *)
(* files for each field and is multipart or not; suStore holds the state   *)
(* of the two storage uploads of the request being served.                 *)
(***************************************************************************)
UploadRoutes == {"api", "netlify"}
UploadFields == {"image", "thumbnail"}

\* a request that is not multipart carries no file
UploadRequests ==
    {q \in [files : [UploadFields -> 0..2], multipart : BOOLEAN, configured : BOOLEAN] :
        ~q.multipart => \A f \in UploadFields : q.files[f] = 0}

UploadAnswer(status, urls) == [status |-> status, urls |-> urls]

\* req.files as multer leaves it: undefined (no element) for a request that is
\* not multipart, else an object with the fields that carried a file
ReqFiles(req) ==
    IF req.multipart THEN {{f \in UploadFields : req.files[f] > 0}} ELSE {}

\* const { image, thumbnail } = req.files || {};   (the netlify copy only)
DefaultsFiles(route) == route = "netlify"

\* the check of the Cloudinary configuration (the netlify copy only)
ChecksConfig(route) == route = "netlify"

\* upload.fields([{ name: 'image', maxCount: 1 }, { name: 'thumbnail',
\* maxCount: 1 }]): a field with more files fails in the middleware and the
\* framework answers 500 without running the handler
ReceiveUpload(route, req) ==
    /\ suPc \in {"idle", "done"}
    /\ suReq.n < NumRequests
    /\ suRoute' = route
    /\ suReq' = [files |-> req.files, multipart |-> req.multipart,
                 configured |-> req.configured, n |-> suReq.n + 1]
    /\ suStore' = [f \in UploadFields |-> "none"]
    /\ IF \E f \in UploadFields : req.files[f] > 1
       THEN suResp' = {UploadAnswer(500, {})} /\ suPc' = "done"
       ELSE suResp' = {} /\ suPc' = "handling"
    /\ UNCHANGED <<dataVars, uploadVars, creatorVars, connVars, retryVars, authVars>>

\* the handler up to Promise.all, which starts both storage uploads
HandleUpload ==
    /\ suPc = "handling"
    /\ LET files == ReqFiles(suReq)
           present == IF files = {} THEN {} ELSE CHOOSE x \in files : TRUE
       IN  IF ChecksConfig(suRoute) /\ ~suReq.configured
           THEN suResp' = {UploadAnswer(500, {})} /\ suPc' = "done" /\ suStore' = suStore
           ELSE IF files = {} /\ ~DefaultsFiles(suRoute)
           THEN suResp' = {UploadAnswer(500, {})} /\ suPc' = "done" /\ suStore' = suStore
           ELSE IF present # UploadFields
           THEN suResp' = {UploadAnswer(400, {})} /\ suPc' = "done" /\ suStore' = suStore
           ELSE /\ suResp' = {}
                /\ suPc' = "storing"
                /\ suStore' = [f \in UploadFields |-> "pending"]
    /\ UNCHANGED <<suRoute, suReq>>
    /\ UNCHANGED <<dataVars, uploadVars, creatorVars, connVars, retryVars, authVars>>

\* one uploadToCloudinary promise settles; Promise.all rejects on the first
\* failure and fulfils when both are stored; the answer is sent once
StoreSettles(f, ok) ==
    /\ suPc = "storing"
    /\ suStore[f] = "pending"
    /\ ok => suReq.configured
    /\ suStore' = [suStore EXCEPT ![f] = IF ok THEN "stored" ELSE "failed"]
    /\ suResp' = IF suResp # {} THEN suResp
                 ELSE IF ~ok THEN {UploadAnswer(500, {})}
                 ELSE IF \A g \in UploadFields : suStore'[g] = "stored"
                      THEN {UploadAnswer(200, {"image_url", "thumbnail_url"})}
                      ELSE {}
    /\ suPc' = IF \A g \in UploadFields : suStore'[g] # "pending"
               THEN "done" ELSE "storing"
    /\ UNCHANGED <<suRoute, suReq>>
    /\ UNCHANGED <<dataVars, uploadVars, creatorVars, connVars, retryVars, authVars>>

NextServerUpload ==
    \/ \E route \in UploadRoutes, req \in UploadRequests : ReceiveUpload(route, req)
    \/ HandleUpload
    \/ \E f \in UploadFields, ok \in BOOLEAN : StoreSettles(f, ok)

SpecServerUpload == Init /\ [][NextServerUpload]_vars

(***************************************************************************)
(* signIn and signOut of the authentication context.  auUser and           *)
(* auProfile are the in-memory user and profile, auStored the 'user'       *)
(* entry of localStorage (each absent or one value); siBefore is the       *)
(* three as they were when the current signIn call began.                  *)
(***************************************************************************)
UserIds == ProfileIds \cup {"u2"}

\* { id, email: `${name}@demo.com` }
UserData(id, name) == [id |-> id, email |-> <<name, "@demo.com">>]

\* the newProfile object of signIn
SignInProfile(userId) ==
    [id |-> userId, name |-> userId, bio |-> "", profile_pic |-> "", wallet_balance |-> 0]

AuthState == <<auUser, auProfile, auStored>>

SignIn(userId) ==
    /\ siPc \in {"idle", "done"}
    /\ siPc' = "getting"
    /\ siUserId' = userId
    /\ siBefore' = {AuthState}
    /\ siThrew' = FALSE
    /\ UNCHANGED <<auUser, auProfile, auStored>>
    /\ UNCHANGED <<dataVars, uploadVars, creatorVars, connVars, retryVars, srvUploadVars>>

\* await api.getProfile(userId) settles.  answered: the request reached the
\* server, which answers 200 with the profile or 404; otherwise the request
\* failed without a 404 (network error, 500) and signIn throws.
SignInGetProfile(answered) ==
    /\ siPc = "getting"
    /\ IF ~answered
       THEN /\ siPc' = "done"
            /\ siThrew' = TRUE
            /\ UNCHANGED <<auUser, auProfile, auStored>>
       ELSE IF FindById(profiles, siUserId) # {}
       THEN LET profileData == CHOOSE d \in FindById(profiles, siUserId) : TRUE IN
            /\ auUser' = {UserData(profileData.id, profileData.name)}
            /\ auStored' = {UserData(profileData.id, profileData.name)}
            /\ auProfile' = {profileData}
            /\ siPc' = "done"
            /\ siThrew' = FALSE
       ELSE /\ auUser' = {UserData(siUserId, siUserId)}
            /\ auStored' = {UserData(siUserId, siUserId)}
            /\ auProfile' = auProfile
            /\ siPc' = "creating"
            /\ siThrew' = FALSE
    /\ UNCHANGED <<siUserId, siBefore>>
    /\ UNCHANGED <<dataVars, uploadVars, creatorVars, connVars, retryVars, srvUploadVars>>

\* await api.createProfile(newProfile) settles.  answered: the request reached
\* POST /api/profiles, which saves the profile (201) or rejects a duplicate
\* id (400); any failure makes signIn throw.
SignInCreateProfile(answered) ==
    /\ siPc = "creating"
    /\ siPc' = "done"
    /\ LET doc == NewProfile(SignInProfile(siUserId)) IN
       IF answered /\ UniqueId(profiles, doc)
       THEN /\ profiles' = profiles \cup {doc}
            /\ auProfile' = {SignInProfile(siUserId)}
            /\ siThrew' = FALSE
       ELSE /\ profiles' = profiles
            /\ auProfile' = auProfile
            /\ siThrew' = TRUE
    /\ UNCHANGED <<auUser, auStored, siUserId, siBefore>>
    /\ UNCHANGED <<images, transactions, settleVars, tokenVars, redeemVars>>
    /\ UNCHANGED <<uploadVars, creatorVars, connVars, retryVars, srvUploadVars>>

SignOut ==
    /\ siPc \in {"idle", "done"}
    /\ auUser' = {}
    /\ auProfile' = {}
    /\ auStored' = {}
    /\ UNCHANGED <<siPc, siUserId, siBefore, siThrew>>
    /\ UNCHANGED <<dataVars, uploadVars, creatorVars, connVars, retryVars, srvUploadVars>>

NextAuth ==
    \/ \E userId \in UserIds : SignIn(userId)
    \/ \E answered \in BOOLEAN : SignInGetProfile(answered)
    \/ \E answered \in BOOLEAN : SignInCreateProfile(answered)
    \/ SignOut
    \/ \E body \in ProfileBodies : CreateProfile(body)

SpecAuth == Init /\ [][NextAuth]_vars

Next == NextSettle \/ NextToken \/ NextPurchase \/ NextLedger \/ NextImage \/ NextCreator \/ NextConnect \/ NextRetry
        \/ NextServerUpload \/ NextAuth

Spec == Init /\ [][Next]_vars

(***************************************************************************)
(* Properties of redemption (checked under SpecToken).                     *)
(***************************************************************************)
\* client c holds a successful redemption: its PUT use request answered 200
Redeemed(c) == rdPc[c] = "done" /\ rdResp[c].status = 200

\* the step in which client c sends its validate request
ValidateStep(c) == rdPc[c] = "idle" /\ rdPc'[c] # "idle"

\* the step in which client c's use request answers success
ClaimStep(c) == rdPc[c] = "validated" /\ rdPc'[c] = "done" /\ rdResp'[c].status = 200

\* C1: two redemption attempts for the same token never both succeed.
C1_ExactlyOneRedemption ==
    \A c \in Clients, d \in Clients :
        (c # d /\ Redeemed(c) /\ Redeemed(d)) => rdToken[c] # rdToken[d]

\* C2: a token's used flag turns true only while the token is unexpired, and a
\* claim succeeds only on a token that is unused and unexpired.
C2_ClaimOnceBeforeExpiry ==
    [][/\ \A t \in tokens : \A u \in tokens' :
              (u.id = t.id /\ ~t.used /\ u.used) => ~Expired(t, now)
       /\ \A c \in Clients :
              ClaimStep(c) =>
                  \A t \in FindByToken(tokens, rdToken[c]) : ~t.used /\ ~Expired(t, now)
      ]_vars

\* C9: a validate request for a token whose expiry has passed answers
\* "Token expired", whatever the token's used flag.
C9_ExpiryDominates ==
    [][\A c \in Clients :
           ValidateStep(c) =>
               \A t \in FindByToken(tokens, rdToken'[c]) :
                   Expired(t, now) => rdResp'[c].error = "Token expired"
      ]_vars

UseStep(c) == rdPc[c] = "validated" /\ rdPc'[c] = "done"

\* the failure outcomes that match the state of the token a request names
MatchingErrors(found, time) ==
    IF found = {} THEN {"Token not found"}
    ELSE {e \in {"Token already used", "Token expired"} :
              \E t \in found : (e = "Token already used" /\ t.used)
                                   \/ (e = "Token expired" /\ Expired(t, time))}

\* C11: every request of a redemption attempt, the validate request and the use
\* request alike, that names a missing, used or expired token answers with
\* the failure outcome that matches the token's state.
C11_FailureMatchesState ==
    [][\A c \in Clients :
           (ValidateStep(c) \/ UseStep(c)) =>
               LET m == MatchingErrors(FindByToken(tokens, rdToken'[c]), now) IN
               m # {} => rdResp'[c].error \in m
      ]_vars

\* C12: at most one DownloadToken is stored per transaction id.
C12_OneTokenPerTransaction ==
    \A x \in TxnIds : Cardinality({t \in tokens : t.transaction_id = x}) <= 1

InsertStep(r) == txPc[r] = "idle" /\ txPc'[r] # "idle"

\* the step in which request r answers 201
SettledStep(r) == txCode[r] = 0 /\ txCode'[r] = 201

\* the stored transactions of a (buyer, image, payment reference) triple
CompletedFor(coll, b) ==
    {t \in coll : /\ t.buyer_id = b.buyer_id
                  /\ t.image_id = b.image_id
                  /\ t.stripe_payment_id = b.stripe_payment_id
                  /\ t.status = "completed"}

RECURSIVE SumRequested(_)
SumRequested(R) ==
    IF R = {} THEN 0
    ELSE LET r == CHOOSE x \in R : TRUE IN TheBody(r).amount + SumRequested(R \ {r})

\* the requests that answered 201 after finding seller profile p
SettledOn(p) ==
    {r \in Requests : /\ txPc[r] = "done"
                      /\ txCode[r] = 201
                      /\ txCreator[r] # {}
                      /\ TheBody(r).creator_id = p.id}

\* C3: when a settlement sent with status completed answers 201, the seller's
\* balance has grown by the amount over the handler's closing step (no earlier
\* step of the handler touches the profile), and exactly one completed
\* Transaction is stored for the (buyer, image, payment reference) triple.
C3_SettlementCredits ==
    [][\A r \in Requests :
           (SettledStep(r) /\ "status" \in DOMAIN TheBody(r)) =>
               LET b == TheBody(r) IN
               /\ \A p \in FindById(profiles, b.creator_id) :
                      \E q \in FindById(profiles', p.id) :
                          Balance(q) = Balance(p) + b.amount
               /\ Cardinality(CompletedFor(transactions', b)) = 1
      ]_vars

\* C4: once every request has answered 201 for a seller it found, with pairwise
\* distinct payment references, the seller's balance is the sum of the amounts
\* (profiles start with balance 0).
C4_NoLostCredit ==
    (/\ \A r \in Requests : txPc[r] = "done" /\ txCode[r] = 201 /\ txCreator[r] # {}
     /\ \A r \in Requests, s \in Requests :
            r # s => TheBody(r).stripe_payment_id # TheBody(s).stripe_payment_id)
    => \A p \in profiles : Balance(p) = SumRequested(SettledOn(p))

\* C5: in every state the balance of a seller is the sum of the amounts of the
\* stored transactions that name it, and a request that answered failure has
\* left no transaction behind.
C5_AllOrNothing ==
    /\ \A p \in profiles :
           Balance(p) = SumAmounts({t \in transactions : t.creator_id = p.id})
    /\ \A r \in Requests :
           (/\ txPc[r] = "done"
            /\ txCode[r] = 400
            /\ \A s \in Requests \ {r} : txBody[s] # {} => TheBody(s).id # TheBody(r).id)
           => FindById(transactions, TheBody(r).id) = {}

\* C6: at most one Transaction is stored per external payment reference.
C6_IdempotentByPaymentRef ==
    \A ref \in PayRefs :
        Cardinality({t \in transactions : t.stripe_payment_id = ref}) <= 1

\* C7: a request whose amount differs from the price of its image stores no
\* Transaction, changes no profile and answers failure.
C7_AmountMismatch ==
    [][\A r \in Requests :
           InsertStep(r) =>
               \A i \in FindById(images, TheBody(r)'.image_id) :
                   i.price # TheBody(r)'.amount =>
                       /\ transactions' = transactions
                       /\ profiles' = profiles
                       /\ txCode'[r] = 400
      ]_vars

\* C8: a request that names an image that does not exist, or a seller that has
\* no profile, stores no Transaction and answers failure.
C8_MissingImageOrSeller ==
    [][\A r \in Requests :
           (/\ InsertStep(r)
            /\ \/ FindById(images, TheBody(r)'.image_id) = {}
               \/ FindById(profiles, TheBody(r)'.creator_id) = {})
           => /\ transactions' = transactions
              /\ txCode'[r] = 400
      ]_vars

\* the step in which request r answers 400
FailedStep(r) == txCode[r] = 0 /\ txCode'[r] = 400

\* C15: when a settlement answers 201 the download counter of its image has
\* grown by exactly one over the handler's closing step (no earlier step of the
\* handler touches the Image collection), and a settlement that answers failure
\* leaves every counter as it was.
C15_SettlementCountsDownload ==
    [][\A r \in Requests :
           /\ SettledStep(r) =>
                  \A i \in FindById(images, TheBody(r).image_id) :
                      \E j \in FindById(images', i.id) : j.downloads = i.downloads + 1
           /\ FailedStep(r) => images' = images
      ]_vars

(***************************************************************************)
(* Frame properties of the ledger (checked under SpecLedger).              *)
(***************************************************************************)
\* C16: the balance of a stored profile changes only in a step in which a
\* settlement for that seller answers 201; no create-profile or update-profile
\* request changes it, whatever its body, and no balance is ever negative.
C16_BalanceFrame ==
    [][/\ \A p \in profiles :
              \A q \in FindById(profiles', p.id) :
                  Balance(q) # Balance(p) =>
                      \E r \in Requests : SettledStep(r) /\ TheBody(r).creator_id = p.id
       /\ \A q \in profiles' : Balance(q) >= 0
      ]_vars

\* C16 witness: a profile that an update-profile request carrying a
\* wallet_balance has renamed, and for which a settlement answered 201 after
\* finding it; its balance is the one it was created with.
C16_Witness ==
    \E p \in profiles :
        /\ p.name = "renamed"
        /\ Balance(p) = 0
        /\ \E r \in Requests :
               /\ txPc[r] = "done"
               /\ txCode[r] = 201
               /\ txCreator[r] # {}
               /\ TheBody(r).creator_id = p.id

\* C17: a stored Transaction stays stored with every field as it was written,
\* its status included, and stays the only document of its id.
C17_TransactionsImmutable ==
    [][\A t \in transactions : FindById(transactions', t.id) = {t}]_vars

\* C17 witness: a Transaction stored as pending by a request that answered 201,
\* after another request tried to store a different document under the same id
\* and answered 400.
C17_Witness ==
    \E t \in transactions, r \in Requests, s \in Requests :
        /\ t.status = "pending"
        /\ txPc[r] = "done" /\ txCode[r] = 201
        /\ txPc[s] = "done" /\ txCode[s] = 400
        /\ NewTransaction(TheBody(r)) = t
        /\ TheBody(s).id = t.id
        /\ NewTransaction(TheBody(s)) # t
        /\ ValidTransaction(NewTransaction(TheBody(s)))

\* C25: a create-transaction request whose id is stored already answers 400
\* in its first step, goes no further, stores nothing and changes no profile.
C25_DuplicateIdRejected ==
    [][\A r \in Requests :
           (InsertStep(r) /\ FindById(transactions, TheBody(r)'.id) # {}) =>
               /\ txPc'[r] = "done"
               /\ txCode'[r] = 400
               /\ transactions' = transactions
               /\ profiles' = profiles
      ]_vars

\* C25 witness: the seller's profile is stored, one request stored its
\* transaction and answered 201 after finding the seller, and another request
\* that sent a valid body with the same id answered 400; one document has the id.
C25_Witness ==
    \E r \in Requests, s \in Requests :
        /\ r # s
        /\ txPc[r] = "done" /\ txCode[r] = 201 /\ txCreator[r] # {}
        /\ txPc[s] = "done" /\ txCode[s] = 400
        /\ TheBody(s).id = TheBody(r).id
        /\ TheBody(s) # TheBody(r)
        /\ ValidTransaction(NewTransaction(TheBody(s)))
        /\ FindById(transactions, TheBody(r).id) = {NewTransaction(TheBody(r))}
        /\ FindById(profiles, TheBody(s).creator_id) # {}

(***************************************************************************)
(* Properties of token issuance and of the purchase flow (checked under    *)
(* SpecPurchase).                                                          *)
(***************************************************************************)
\* C13: every stored DownloadToken refers to a stored Transaction whose status
\* is completed.
C13_TokenOfCompletedTransaction ==
    \A t \in tokens :
        \E x \in transactions : x.id = t.transaction_id /\ x.status = "completed"

\* no POST /api/transactions handler is between two of its store operations
HandlersAtRest == \A r \in Requests : txPc[r] \in {"idle", "done"}

\* C14: once a purchase has answered 201 and the server has no step left to
\* take, a DownloadToken bound to the purchase's transaction is stored.
C14_SettlementIssuesToken ==
    HandlersAtRest =>
        \A r \in Requests :
            (txPc[r] = "done" /\ txCode[r] = 201) =>
                \E t \in tokens : t.transaction_id = TheBody(r).id

(***************************************************************************)
(* Properties of the upload client (checked under SpecUpload).             *)
(***************************************************************************)
\* the failures that count as transient: a network error or a 5xx answer
Transient == {"network", "5xx"}

\* C18: a call sends at most RetryLimit + 1 submissions, and when the
\* collaborator fails every submission transiently (network error or 5xx) the
\* retrying client stops after exactly that many and fails with the error of
\* its last submission.
C18_BoundedRetry ==
    /\ upAttempts <= RetryLimit + 1
    /\ (/\ upPc = "done"
        /\ upImpl = "withRetry"
        /\ \A k \in 1..(RetryLimit + 1) : upScript[k] \in Transient)
       => /\ upAttempts = RetryLimit + 1
          /\ upResult = "error"
          /\ upError = {ErrorOf(upScript[upAttempts], upAttempts)}

\* C19: when the collaborator fails the first two submissions transiently
\* (network error or 5xx) and accepts the third, the retrying client succeeds
\* after exactly three submissions.
C19_TwoFailuresThenSuccess ==
    (/\ upPc = "done"
     /\ upImpl = "withRetry"
     /\ upScript[1] \in Transient
     /\ upScript[2] \in Transient
     /\ upScript[3] = "ok")
    => upResult = "ok" /\ upAttempts = 3

\* C20: no submission follows one that was answered 4xx, and a call whose
\* submission was answered 4xx fails with that answer's error; a call whose
\* first submission is answered 4xx has sent exactly one.
C20_NoRetryAfter4xx ==
    /\ \A k \in 1..upAttempts : upScript[k] = "4xx" => k = upAttempts
    /\ (upPc = "done" /\ upScript[upAttempts] = "4xx")
       => upResult = "error" /\ upError = {ErrorOf("4xx", upAttempts)}
    /\ (upPc = "done" /\ upScript[1] = "4xx") => upAttempts = 1

\* C20 witness: the retrying client has ended in failure after one submission
\* that was answered 4xx, although the collaborator would have accepted the next.
C20_Witness ==
    /\ upPc = "done"
    /\ upImpl = "withRetry"
    /\ upScript[1] = "4xx"
    /\ upScript[2] = "ok"
    /\ upAttempts = 1
    /\ upResult = "error"

\* C22: each delay the call waits is twice the delay it waited before.
C22_BackoffDoubles ==
    \A k \in 1..(Len(upDelays) - 1) : upDelays[k + 1] = 2 * upDelays[k]

\* C23: a call never has two submissions in flight, and while its submission
\* number n is in flight every earlier submission has failed and has been
\* followed by a backoff delay that elapsed.
C23_OneSubmissionInFlight ==
    /\ upInFlight <= 1
    /\ upPc = "inflight" =>
           /\ upInFlight = 1
           /\ Len(upDelays) = upAttempts - 1
           /\ \A k \in 1..(upAttempts - 1) : upScript[k] # "ok"

\* C23 witness: the retrying client has its third submission in flight after
\* two delays.
C23_Witness ==
    /\ upPc = "inflight"
    /\ upImpl = "withRetry"
    /\ upAttempts = 3
    /\ Len(upDelays) = 2
    /\ upInFlight = 1

(***************************************************************************)
(* Frame property of images (checked under SpecImage).                     *)
(***************************************************************************)
\* C24: a stored Image keeps every field other than price and downloads, and
\* its downloads counter changes only in a step in which a purchase of that
\* image answers 201.
C24_ImageFrame ==
    [][\A i \in images :
           \A j \in FindById(images', i.id) :
               /\ \A f \in (DOMAIN i) \ {"price", "downloads"} :
                      f \in DOMAIN j /\ j[f] = i[f]
               /\ j.downloads # i.downloads =>
                      \E r \in Requests : SettledStep(r) /\ TheBody(r).image_id = i.id
      ]_vars

(***************************************************************************)
(* Property of the creator upload flow (checked under SpecCreator).        *)
(***************************************************************************)
\* C21: a create-image request has been sent only when the upload call
\* returned after a submission that the collaborator accepted; a flow whose
\* upload threw has sent none and has alerted; and every stored Image carries
\* the URLs of a successful upload.
C21_CreateOnlyAfterUpload ==
    /\ huSent > 0 =>
           upPc = "done" /\ upResult = "ok" /\ upScript[upAttempts] = "ok"
    /\ (huPc = "done" /\ upResult = "error") => huSent = 0 /\ huAlert
    /\ \A i \in images :
           upResult = "ok" /\ i.image_url = "url" /\ i.thumbnail_url = "thumb"

\* C21 witness: the flow has ended after an upload that failed on its last
\* permitted submission; no create-image request was sent and no Image exists.
C21_Witness ==
    /\ huPc = "done"
    /\ upResult = "error"
    /\ upAttempts = RetryLimit + 1
    /\ huSent = 0
    /\ huAlert
    /\ images = {}

(***************************************************************************)
(* Properties of connectDB (checked under SpecConnect).                    *)
(***************************************************************************)
ConnReturned == cnPc \in {"skipped", "connected", "gaveup"}

\* what both statements share: no throw; nothing is attempted when a
\* connection exists or MONGODB_URI is unset; a call in progress can always
\* take its next step and a call that has returned takes none; a delay was
\* waited after every failed attempt that was followed by another, and after
\* no other
ConnCommon ==
    /\ ~cnThrew
    /\ (cnPc # "idle" /\ (cnEnv.readyState >= 1 \/ ~cnEnv.uri)) =>
           cnPc = "skipped" /\ cnCalls = 0 /\ cnDelays = <<>>
    /\ cnPc \in {"connecting", "inflight", "backoff", "local", "localInflight"} =>
           ENABLED NextConnect
    /\ ConnReturned => ~ENABLED NextConnect
    /\ cnPc = "connecting" => cnCalls = cnAttempt - 1 /\ Len(cnDelays) = cnCalls
    /\ cnPc = "inflight" => cnCalls = cnAttempt /\ Len(cnDelays) = cnAttempt - 1
    /\ cnPc = "backoff" => cnCalls = cnAttempt /\ Len(cnDelays) = cnCalls
    /\ cnPc = "connected" => Len(cnDelays) = cnAttempt - 1
    /\ cnPc \in {"local", "localInflight", "gaveup"} =>
           Len(cnDelays) = maxAttempts - 1
    /\ Len(cnDelays) <= maxAttempts - 1

C28_RetriesThenThrowsLast ==
    /\ Len(rwCalls) <= rwAttempts
    /\ \A k \in 1..(Len(rwCalls) - 1) : rwCalls[k] # "ok"
    /\ rwPc = "calling" => Len(rwCalls) = rwI - 1 /\ Len(rwDelays) = rwI - 1
    /\ rwPc = "waiting" =>
           Len(rwCalls) = rwI /\ Len(rwDelays) = rwI /\ rwI < rwAttempts
    /\ rwPc = "returned" =>
           /\ rwCalls[Len(rwCalls)] = "ok"
           /\ rwResult = {[call |-> Len(rwCalls)]}
           /\ Len(rwDelays) = Len(rwCalls) - 1
           /\ ~ENABLED NextRetry
    /\ rwPc = "threw" =>
           /\ Len(rwCalls) = rwAttempts
           /\ \A k \in 1..rwAttempts : rwCalls[k] # "ok"
           /\ rwLastErr = {[call |-> rwAttempts, err |-> rwCalls[rwAttempts]]}
           /\ rwResult = {}
           /\ Len(rwDelays) = rwAttempts - 1
           /\ ~ENABLED NextRetry
    /\ \A k \in 1..Len(rwDelays) : rwDelays[k] = RetryBaseMs * Pow2(k)

\* C28 witness: three permitted calls failed with different errors, two
\* delays were waited, and the operation threw the error of the third call.
C28_Witness ==
    /\ rwPc = "threw"
    /\ rwAttempts = 3
    /\ rwCalls = <<"timeout", "timeout", "refused">>
    /\ rwLastErr = {[call |-> 3, err |-> "refused"]}
    /\ Len(rwDelays) = 2

(***************************************************************************)
(* Property of the server upload route (checked under SpecServerUpload).   *)
(***************************************************************************)
\* C29: a success answer is sent only when both storage uploads succeeded,
\* and carries both URLs; a request lacking either file is answered 400 and
\* no storage upload is started for it; when either storage upload failed
\* the answer is 500 with no URL.
C29_UploadAnswers ==
    /\ \A a \in suResp :
           a.status = 200 =>
               /\ \A f \in UploadFields : suStore[f] = "stored"
               /\ a.urls = {"image_url", "thumbnail_url"}
    /\ (suPc = "done" /\ \E f \in UploadFields : suReq.files[f] = 0) =>
           /\ suResp = {UploadAnswer(400, {})}
           /\ \A g \in UploadFields : suStore[g] = "none"
    /\ (\E f \in UploadFields : suStore[f] = "failed") =>
           suResp = {UploadAnswer(500, {})}

(***************************************************************************)
(* Property of signIn (checked under SpecAuth).                            *)
(***************************************************************************)
\* C30: when a signIn call has thrown, the in-memory user, the in-memory
\* profile and the localStorage 'user' entry are what they were when the
\* call began.
C30_FailedSignInLeavesState ==
    (siPc = "done" /\ siThrew) => siBefore = {AuthState}

====
